---- MODULE Spec2Model ----
(***************************************************************************)
(* NavDataFrame::gps_ecef, NavDataFrame::gps_dtsv (src/src/gpsnav.cpp) and *)
(* NavDataFrame::gps_stateNclock (src/src/navrnx.hpp).                     *)
(*                                                                         *)
(* Arithmetic.  The code computes in IEEE doubles.  The model computes in  *)
(* fixed point: an angle or a dimensionless number x is the integer        *)
(* floor(x * SCALE); a product of two such numbers is Mul(a, b).  Times    *)
(* are whole seconds.  Units of the record's fields:                       *)
(*   data__[0]  a0      picoseconds                                        *)
(*   data__[1]  a1      picoseconds per second                             *)
(*   data__[2]  a2      1e-6 picoseconds per second^2                      *)
(*   data__[5]  Deltan  microradians per second                            *)
(*   data__[6]  M0      radians * SCALE                                    *)
(*   data__[8]  e       * SCALE                                            *)
(*   data__[10] sqrt(A) sqrt(metres)                                       *)
(*   data__[11] Toe     seconds of week                                    *)
(*   data__[21] GPS week                                                   *)
(* std::sin is the operator Sin (range reduction and a degree-7 Taylor     *)
(* polynomial in Horner form), std::sqrt is ISqrt.  The quantum 1/SCALE is *)
(* coarser than LIMIT = 1e-14, so |E-Ek| > LIMIT is |E-Ek| > 0.            *)
(***************************************************************************)
EXTENDS Integers, Sequences, FiniteSets, TLC

\* ------------------------------------------------------------------ bounds
SCALE == 20000
MaxHalfWeeks == 3
MaxOff == 1
MaxDays == 2

\* ------------------------------------------------------- program constants
\* constexpr double LIMIT {1e-14}: floor(1e-14 * SCALE)
LIMIT == 0
\* for (...; i<1001; ...)
LOOP_BOUND == 1001
\* if (i>=1000) return 1;
FAIL_AT == 1000
\* the literals 302400e0 and 604800e0
HALF_WEEK == 302400
SEC_IN_WEEK == 604800
\* mi_gps = 3.986005e14 m^3/s^2, here in km^3/s^2
mi_gps == 398601
\* F_CLOCK = -4.442807633e-10 s/sqrt(m), here in ps/sqrt(m)
F_CLOCK == -444
\* seconds in a day, the literal 86400e0 of gps_stateNclock
SEC_IN_DAY == 86400

\* -------------------------------------------------------------- arithmetic
Abs(x) == IF x < 0 THEN -x ELSE x

\* the product of two fixed-point numbers
Mul(a, b) == (a * b) \div SCALE

PI == (31416 * SCALE) \div 10000
TWOPI == (62832 * SCALE) \div 10000
HALFPI == PI \div 2

\* the argument of std::sin folded into [-pi/2, pi/2]
Fold(x) ==
  LET r  == x % TWOPI
      r2 == IF r > PI THEN r - TWOPI ELSE r
  IN  IF r2 > HALFPI THEN PI - r2
      ELSE IF r2 < -HALFPI THEN -PI - r2
      ELSE r2

\* std::sin on an argument a in [0, pi/2]: a(1 - a^2/6 (1 - a^2/20 (1 - a^2/42)))
SinPoly(a) ==
  LET x2 == Mul(a, a)
      t3 == SCALE - (x2 \div 42)
      t2 == SCALE - (Mul(x2, t3) \div 20)
      t1 == SCALE - (Mul(x2, t2) \div 6)
  IN  Mul(a, t1)

\* std::sin
Sin(x) ==
  LET r == Fold(x)
  IN  IF r < 0 THEN -SinPoly(-r) ELSE SinPoly(r)

\* std::sqrt on a non-negative integer
ISqrt(x) == CHOOSE r \in 0..2000 : r * r <= x /\ (r + 1) * (r + 1) > x

\* ------------------------------------------------------------------- state
VARIABLES
  DEBUG,   \* whether the translation unit was compiled with -DDEBUG
  data__,  \* NavDataFrame::data__[31]
  toc__,   \* NavDataFrame::toc__, as [mjd, sec]
  arg,     \* per caller: the operation it invokes and its arguments
  pc,      \* per caller: where it stands
  cargs,   \* per caller: the actual parameters of the call in progress
  tk,      \* gps_ecef's local tk
  dt,      \* gps_dtsv's parameter dt (passed by value, rewritten by the wrap)
  Mk,      \* local Mk of the call in progress
  E,       \* local E
  Ek,      \* local Ek
  i,       \* local i
  log      \* per caller: what each returned call gave back, in order

vars == <<DEBUG, data__, toc__, arg, pc, cargs, tk, dt, Mk, E, Ek, i, log>>

ProcSet == {1, 2}

\* ----------------------------------------------------------------- gps_ecef
\* double tk (t_sec-toe_sec);
TkOf(toe_sec, t_sec) == t_sec - toe_sec

\* #ifdef DEBUG  if (tk<-302400e0 || tk>302400e0) return -1;
EcefDebugReject(t) == DEBUG /\ (t < -HALF_WEEK \/ t > HALF_WEEK)

\* #ifdef DEBUG  if (tk> 302400e0) tk -= 604800e0; if (tk<-302400e0) tk += 604800e0;
EcefWrap(t) ==
  IF DEBUG
  THEN LET t1 == IF t > HALF_WEEK THEN t - SEC_IN_WEEK ELSE t
       IN  IF t1 < -HALF_WEEK THEN t1 + SEC_IN_WEEK ELSE t1
  ELSE t

\* double A (data__[10]*data__[10]), in km
SemiMajorAxis == (data__[10] * data__[10]) \div 1000

\* double n0 (std::sqrt(mi_gps/(A*A*A))), in microradians per second:
\* mi_gps * 1e12 / A^3 by three staged divisions, then the square root
MeanMotion0 ==
  LET A  == SemiMajorAxis
      q1 == (mi_gps * 1000) \div A
      q2 == (q1 * 100000) \div A
      q3 == (q2 * 10000) \div A
  IN  ISqrt(q3)

\* double n (n0+data__[5]);
MeanMotion == MeanMotion0 + data__[5]

\* double Mk (data__[6]+n*tk);  n*tk is microradians, brought to 1/SCALE rad
EcefMeanAnomaly(t) == data__[6] + ((MeanMotion * t) \div (1000000 \div SCALE))

\* for (...; std::abs(E-Ek)>LIMIT && i<1001; ...)
EcefGuard(e, ek, n) == Abs(e - ek) > LIMIT /\ n < LOOP_BOUND

\* the update with the factor e left out: E = std::sin(Ek)+Mk
EcefUpdateNoEcc(ek, m) == Sin(ek) + m

\* E = std::sin(Ek)*e+Mk;
EcefUpdate(ek, m) == Mul(Sin(ek), data__[8]) + m

\* the failure test against the loop's own bound: if (i>=1001) return 1;
EcefFailedLate(n) == n >= LOOP_BOUND

\* if (i>=1000) return 1;
EcefFailed(n) == n >= FAIL_AT

\* state[0..2]: the closed form of lines 108-143 is a function of the record,
\* of E and of tk; it is kept as the pair of the two arguments that vary
EcefState(e, t) == <<e, t>>

\* what a returned call leaves with its caller
\* (t_in: the elapsed time it was given; t_used: the one it computed with;
\* solved: its loop condition was tested; conv: |E-Ek| <= LIMIT at the loop's
\* exit; ptr: its optional pointer argument was non-null; Ek: the value
\* written through Ek_ptr or used for the relativistic term; out: state or dt_sv)
Entry(fn, status, t_in, t_used, solved, m, iters, conv, ptr, ek, out) ==
  [fn |-> fn, status |-> status, t_in |-> t_in, t_used |-> t_used,
   solved |-> solved, Mk |-> m, iters |-> iters, conv |-> conv,
   ptr |-> ptr, Ek |-> ek, out |-> out]

\* gps_ecef's entry with the mean anomaly stored back into the record:
\* data__[6] += n*tk
EcefEnterStoring(p) ==
  /\ pc[p] = "ecef_entry"
  /\ LET t0 == TkOf(cargs[p].toe_sec, cargs[p].t_sec)
     IN  IF EcefDebugReject(t0)
         THEN /\ log' = [log EXCEPT ![p] = Append(@,
                    Entry("gps_ecef", -1, t0, t0, FALSE, 0, 0, FALSE, FALSE, 0, <<>>))]
              /\ pc' = [pc EXCEPT ![p] = cargs[p].ra]
              /\ UNCHANGED <<data__, tk, Mk, E, Ek, i>>
         ELSE /\ tk' = [tk EXCEPT ![p] = EcefWrap(t0)]
              /\ data__' = [data__ EXCEPT ![6] = EcefMeanAnomaly(EcefWrap(t0))]
              /\ Mk' = [Mk EXCEPT ![p] = EcefMeanAnomaly(EcefWrap(t0))]
              /\ E' = [E EXCEPT ![p] = EcefMeanAnomaly(EcefWrap(t0))]
              /\ Ek' = [Ek EXCEPT ![p] = 0]
              /\ i' = [i EXCEPT ![p] = 0]
              /\ pc' = [pc EXCEPT ![p] = "ecef_loop"]
              /\ UNCHANGED log
  /\ UNCHANGED <<DEBUG, toc__, arg, cargs, dt>>

\* gps_ecef from its entry to the first test of the loop condition
EcefEnter(p) ==
  /\ pc[p] = "ecef_entry"
  /\ LET t0 == TkOf(cargs[p].toe_sec, cargs[p].t_sec)
     IN  IF EcefDebugReject(t0)
         THEN /\ log' = [log EXCEPT ![p] = Append(@,
                    Entry("gps_ecef", -1, t0, t0, FALSE, 0, 0, FALSE, FALSE, 0, <<>>))]
              /\ pc' = [pc EXCEPT ![p] = cargs[p].ra]
              /\ UNCHANGED <<tk, Mk, E, Ek, i>>
         ELSE /\ tk' = [tk EXCEPT ![p] = EcefWrap(t0)]
              /\ Mk' = [Mk EXCEPT ![p] = EcefMeanAnomaly(EcefWrap(t0))]
              /\ E' = [E EXCEPT ![p] = EcefMeanAnomaly(EcefWrap(t0))]
              /\ Ek' = [Ek EXCEPT ![p] = 0]
              /\ i' = [i EXCEPT ![p] = 0]
              /\ pc' = [pc EXCEPT ![p] = "ecef_loop"]
              /\ UNCHANGED log
  /\ UNCHANGED <<DEBUG, data__, toc__, arg, cargs, dt>>

\* one pass of the body of gps_ecef's loop
EcefLoopStep(p) ==
  /\ pc[p] = "ecef_loop"
  /\ EcefGuard(E[p], Ek[p], i[p])
  /\ Ek' = [Ek EXCEPT ![p] = E[p]]
  /\ E' = [E EXCEPT ![p] = EcefUpdate(E[p], Mk[p])]
  /\ i' = [i EXCEPT ![p] = i[p] + 1]
  /\ UNCHANGED <<DEBUG, data__, toc__, arg, pc, cargs, tk, dt, Mk, log>>

\* gps_ecef from the loop's exit to its return
EcefExit(p) ==
  /\ pc[p] = "ecef_loop"
  /\ ~EcefGuard(E[p], Ek[p], i[p])
  /\ LET t0   == TkOf(cargs[p].toe_sec, cargs[p].t_sec)
         conv == Abs(E[p] - Ek[p]) <= LIMIT
     IN  IF EcefFailed(i[p])
         THEN /\ log' = [log EXCEPT ![p] = Append(@,
                    Entry("gps_ecef", 1, t0, tk[p], TRUE, Mk[p], i[p], conv, FALSE, 0, <<>>))]
              /\ UNCHANGED Ek
         ELSE /\ Ek' = [Ek EXCEPT ![p] = E[p]]
              /\ log' = [log EXCEPT ![p] = Append(@,
                    Entry("gps_ecef", 0, t0, tk[p], TRUE, Mk[p], i[p], conv,
                          cargs[p].Ek_ptr, IF cargs[p].Ek_ptr THEN E[p] ELSE 0,
                          EcefState(E[p], tk[p])))]
  /\ pc' = [pc EXCEPT ![p] = cargs[p].ra]
  /\ UNCHANGED <<DEBUG, data__, toc__, arg, cargs, tk, dt, Mk, E, i>>

\* ----------------------------------------------------------------- gps_dtsv
\* the wrap without its second statement: if (dt> 302400e0) dt -= 604800e0;
DtsvWrapSubOnly(d) == IF d > HALF_WEEK THEN d - SEC_IN_WEEK ELSE d

\* if (dt> 302400e0) dt -= 604800e0;  if (dt<-302400e0) dt += 604800e0;
DtsvWrap(d) ==
  LET d1 == IF d > HALF_WEEK THEN d - SEC_IN_WEEK ELSE d
  IN  IF d1 < -HALF_WEEK THEN d1 + SEC_IN_WEEK ELSE d1

\* A, n0, n and  double Mk (data__[6]+n*dt);
DtsvMeanAnomaly(d) == data__[6] + ((MeanMotion * d) \div (1000000 \div SCALE))

\* for (...; std::abs(E-Ek)>LIMIT && i<1001; ...)
DtsvGuard(e, ek, n) == Abs(e - ek) > LIMIT /\ n < LOOP_BOUND

\* E = std::sin(Ek)*e+Mk;
DtsvUpdate(ek, m) == Mul(Sin(ek), data__[8]) + m

\* if (i>=1000) return 1;
DtsvFailed(n) == n >= FAIL_AT

\* const double Dtr = F_CLOCK * (data__[8]*data__[10]*std::sin(Ek)), picoseconds;
\* e*sqrt(A) is carried in tenths of sqrt(m)
Dtr(ek) ==
  (F_CLOCK * Mul((data__[8] * data__[10]) \div (SCALE \div 10), Sin(ek))) \div 10

\* Dtsv = data__[0] + data__[1]*dt + (data__[2]*dt)*dt;  Dtsv += Dtr;
DtsvValue(d, ek) ==
  data__[0] + data__[1] * d + ((data__[2] * d) \div 1000000) * d + Dtr(ek)

\* gps_dtsv from its entry to the first test of the loop condition, or, given
\* Ein, to its return
DtsvEnter(p) ==
  /\ pc[p] = "dtsv_entry"
  /\ LET d0 == cargs[p].dt
         dw == DtsvWrap(d0)
     IN  /\ dt' = [dt EXCEPT ![p] = dw]
         /\ IF ~cargs[p].hasEin
            THEN /\ Ek' = [Ek EXCEPT ![p] = 0]
                 /\ Mk' = [Mk EXCEPT ![p] = DtsvMeanAnomaly(dw)]
                 /\ E' = [E EXCEPT ![p] = DtsvMeanAnomaly(dw)]
                 /\ i' = [i EXCEPT ![p] = 0]
                 /\ pc' = [pc EXCEPT ![p] = "dtsv_loop"]
                 /\ UNCHANGED log
            ELSE /\ Ek' = [Ek EXCEPT ![p] = cargs[p].Ein]
                 /\ log' = [log EXCEPT ![p] = Append(@,
                       Entry("gps_dtsv", 0, d0, dw, FALSE, 0, 0, FALSE, TRUE,
                             cargs[p].Ein, <<DtsvValue(dw, cargs[p].Ein)>>))]
                 /\ pc' = [pc EXCEPT ![p] = cargs[p].ra]
                 /\ UNCHANGED <<Mk, E, i>>
  /\ UNCHANGED <<DEBUG, data__, toc__, arg, cargs, tk>>

\* one pass of the body of gps_dtsv's loop
DtsvLoopStep(p) ==
  /\ pc[p] = "dtsv_loop"
  /\ DtsvGuard(E[p], Ek[p], i[p])
  /\ Ek' = [Ek EXCEPT ![p] = E[p]]
  /\ E' = [E EXCEPT ![p] = DtsvUpdate(E[p], Mk[p])]
  /\ i' = [i EXCEPT ![p] = i[p] + 1]
  /\ UNCHANGED <<DEBUG, data__, toc__, arg, pc, cargs, tk, dt, Mk, log>>

\* gps_dtsv from the loop's exit to its return
DtsvExit(p) ==
  /\ pc[p] = "dtsv_loop"
  /\ ~DtsvGuard(E[p], Ek[p], i[p])
  /\ LET conv == Abs(E[p] - Ek[p]) <= LIMIT
     IN  IF DtsvFailed(i[p])
         THEN /\ log' = [log EXCEPT ![p] = Append(@,
                    Entry("gps_dtsv", 1, cargs[p].dt, dt[p], TRUE, Mk[p], i[p], conv,
                          FALSE, 0, <<>>))]
              /\ UNCHANGED Ek
         ELSE /\ Ek' = [Ek EXCEPT ![p] = E[p]]
              /\ log' = [log EXCEPT ![p] = Append(@,
                    Entry("gps_dtsv", 0, cargs[p].dt, dt[p], TRUE, Mk[p], i[p], conv,
                          FALSE, E[p], <<DtsvValue(dt[p], E[p])>>))]
  /\ pc' = [pc EXCEPT ![p] = cargs[p].ra]
  /\ UNCHANGED <<DEBUG, data__, toc__, arg, cargs, tk, dt, Mk, E, i>>

\* ---------------------------------------------------------- gps_stateNclock
\* gps__toe2date: datetime(gps_week(data__[21]), seconds(data__[11])), the day
\* (MJD; GPS week 0 starts at MJD 44244) and the seconds of that day
ToeDate ==
  [mjd |-> 44244 + 7 * data__[21] + (data__[11] \div SEC_IN_DAY),
   sec |-> data__[11] % SEC_IN_DAY]

\* if (t.mjd()>toe.mjd()) t_sec += 86400e0; else if (t.mjd()<toe.mjd()) t_sec -= 86400e0;
AlignToToe(mjd, sec) ==
  IF mjd > ToeDate.mjd THEN sec + SEC_IN_DAY
  ELSE IF mjd < ToeDate.mjd THEN sec - SEC_IN_DAY
  ELSE sec

\* ngpt::delta_sec(t, toc__): the signed seconds from toc__ to t
DeltaSec(mjd, sec) == (mjd - toc__.mjd) * SEC_IN_DAY + (sec - toc__.sec)

CallEcef(toe_sec, t_sec, Ek_ptr, ra) ==
  [toe_sec |-> toe_sec, t_sec |-> t_sec, Ek_ptr |-> Ek_ptr,
   dt |-> 0, hasEin |-> FALSE, Ein |-> 0, ra |-> ra]

CallDtsv(d, hasEin, Ein, ra) ==
  [toe_sec |-> 0, t_sec |-> 0, Ek_ptr |-> FALSE,
   dt |-> d, hasEin |-> hasEin, Ein |-> Ein, ra |-> ra]

\* gps_stateNclock up to its call gps_ecef(toe_sec, t_sec, state)
StateNClockEnter(p) ==
  /\ pc[p] = "start"
  /\ arg[p].scn = "gps_stateNclock"
  /\ cargs' = [cargs EXCEPT ![p] =
        CallEcef(ToeDate.sec, AlignToToe(arg[p].mjd, arg[p].sec), FALSE, "snc_after_ecef")]
  /\ pc' = [pc EXCEPT ![p] = "ecef_entry"]
  /\ UNCHANGED <<DEBUG, data__, toc__, arg, tk, dt, Mk, E, Ek, i, log>>

\* the continuation with the status of gps_ecef not tested: gps_dtsv is called
\* whatever gps_ecef returned
StateNClockAfterEcefUntested(p) ==
  /\ pc[p] = "snc_after_ecef"
  /\ cargs' = [cargs EXCEPT ![p] =
        CallDtsv(DeltaSec(arg[p].mjd, arg[p].sec), FALSE, 0, "snc_after_dtsv")]
  /\ pc' = [pc EXCEPT ![p] = "dtsv_entry"]
  /\ UNCHANGED <<DEBUG, data__, toc__, arg, tk, dt, Mk, E, Ek, i, log>>

\* if ( (status=gps_ecef(...)) ) return status;  then dt from ToC and the call
\* gps_dtsv(dti, dt)
StateNClockAfterEcef(p) ==
  /\ pc[p] = "snc_after_ecef"
  /\ LET r == log[p][Len(log[p])]
     IN  IF r.status # 0
         THEN /\ log' = [log EXCEPT ![p] = Append(@,
                    Entry("gps_stateNclock", r.status, 0, 0, FALSE, 0, 0, FALSE,
                          FALSE, 0, <<>>))]
              /\ pc' = [pc EXCEPT ![p] = "done"]
              /\ UNCHANGED cargs
         ELSE /\ cargs' = [cargs EXCEPT ![p] =
                    CallDtsv(DeltaSec(arg[p].mjd, arg[p].sec), FALSE, 0, "snc_after_dtsv")]
              /\ pc' = [pc EXCEPT ![p] = "dtsv_entry"]
              /\ UNCHANGED log
  /\ UNCHANGED <<DEBUG, data__, toc__, arg, tk, dt, Mk, E, Ek, i>>

\* if ( (status=gps_dtsv(dti, dt)) ) return status;  return status;
StateNClockAfterDtsv(p) ==
  /\ pc[p] = "snc_after_dtsv"
  /\ LET r == log[p][Len(log[p])]
     IN  log' = [log EXCEPT ![p] = Append(@,
           Entry("gps_stateNclock", r.status, 0, 0, FALSE, 0, 0, FALSE, FALSE, 0,
                 IF r.status = 0 THEN log[p][1].out \o r.out ELSE <<>>))]
  /\ pc' = [pc EXCEPT ![p] = "done"]
  /\ UNCHANGED <<DEBUG, data__, toc__, arg, cargs, tk, dt, Mk, E, Ek, i>>

\* ------------------------------------------------------------------ callers
\* a caller of gps_ecef(toe_sec, t_sec, state, &Ek)
StartEcef(p) ==
  /\ pc[p] = "start"
  /\ arg[p].scn = "gps_ecef"
  /\ cargs' = [cargs EXCEPT ![p] = CallEcef(arg[p].toe_sec, arg[p].t_sec, TRUE, "done")]
  /\ pc' = [pc EXCEPT ![p] = "ecef_entry"]
  /\ UNCHANGED <<DEBUG, data__, toc__, arg, tk, dt, Mk, E, Ek, i, log>>

\* a caller of gps_dtsv(dt, dt_sv) or gps_dtsv(dt, dt_sv, &Ein)
StartDtsv(p) ==
  /\ pc[p] = "start"
  /\ arg[p].scn = "gps_dtsv"
  /\ cargs' = [cargs EXCEPT ![p] =
        CallDtsv(arg[p].dt, arg[p].hasEin, arg[p].Ein, "done")]
  /\ pc' = [pc EXCEPT ![p] = "dtsv_entry"]
  /\ UNCHANGED <<DEBUG, data__, toc__, arg, tk, dt, Mk, E, Ek, i, log>>

\* a caller that computes the position, hands the Ek it got to gps_dtsv for the
\* same elapsed time ("If a user has already computed Ek (e.g. when computing SV
\* coordinates), then this value could be used here"), and then lets gps_dtsv
\* solve for Ek itself
StartReuse(p) ==
  /\ pc[p] = "start"
  /\ arg[p].scn = "reuse"
  /\ cargs' = [cargs EXCEPT ![p] =
        CallEcef(arg[p].toe_sec, arg[p].t_sec, TRUE, "reuse_after_ecef")]
  /\ pc' = [pc EXCEPT ![p] = "ecef_entry"]
  /\ UNCHANGED <<DEBUG, data__, toc__, arg, tk, dt, Mk, E, Ek, i, log>>

ReuseAfterEcef(p) ==
  /\ pc[p] = "reuse_after_ecef"
  /\ LET r == log[p][Len(log[p])]
     IN  IF r.status # 0
         THEN /\ pc' = [pc EXCEPT ![p] = "done"]
              /\ UNCHANGED cargs
         ELSE /\ cargs' = [cargs EXCEPT ![p] =
                    CallDtsv(arg[p].t_sec - arg[p].toe_sec, TRUE, r.Ek, "reuse_after_dtsv")]
              /\ pc' = [pc EXCEPT ![p] = "dtsv_entry"]
  /\ UNCHANGED <<DEBUG, data__, toc__, arg, tk, dt, Mk, E, Ek, i, log>>

ReuseAfterDtsv(p) ==
  /\ pc[p] = "reuse_after_dtsv"
  /\ cargs' = [cargs EXCEPT ![p] =
        CallDtsv(arg[p].t_sec - arg[p].toe_sec, FALSE, 0, "done")]
  /\ pc' = [pc EXCEPT ![p] = "dtsv_entry"]
  /\ UNCHANGED <<DEBUG, data__, toc__, arg, tk, dt, Mk, E, Ek, i, log>>

\* ------------------------------------------------------------------- inputs
\* a populated GPS record: clock polynomial, Deltan, M0, e, sqrt(A), Toe, week
MkData(e, m0) ==
  [k \in 0..30 |->
     CASE k = 0  -> 100000
       [] k = 1  -> 10
       [] k = 2  -> 1
       [] k = 5  -> 1
       [] k = 6  -> m0
       [] k = 8  -> e
       [] k = 10 -> 5154
       [] k = 11 -> 7200
       [] k = 21 -> 2086
       [] OTHER  -> 0]

\* eccentricities: circular, nominal, large, 1.0, two just above 1.0 for which
\* the fixed-point iteration from Mk = 2 is slow, and 2.0
ESet == {0, SCALE \div 100, SCALE \div 2, SCALE, SCALE + 71, SCALE + 75, 2 * SCALE}

M0Set == {0, 2, HALFPI}

Records == {MkData(e, m0) : e \in ESet, m0 \in M0Set}

Nominal == MkData(SCALE \div 100, HALFPI)

\* elapsed times around every multiple of half a week
TimeSamples ==
  {k * HALF_WEEK + d : k \in -MaxHalfWeeks..MaxHalfWeeks, d \in -MaxOff..MaxOff}

ArgRec(scn, toe_sec, t_sec, d, hasEin, Ein, mjd, sec) ==
  [scn |-> scn, toe_sec |-> toe_sec, t_sec |-> t_sec, dt |-> d,
   hasEin |-> hasEin, Ein |-> Ein, mjd |-> mjd, sec |-> sec]

NoArg == ArgRec("none", 0, 0, 0, FALSE, 0, 0, 0)

EinSample == HALFPI \div 3

ArgsOver(times, days, secs) ==
  {ArgRec("gps_ecef", ToeDate.sec, ToeDate.sec + s, 0, FALSE, 0, 0, 0) : s \in times}
  \cup {ArgRec("reuse", ToeDate.sec, ToeDate.sec + s, 0, FALSE, 0, 0, 0) : s \in times}
  \cup {ArgRec("gps_dtsv", 0, 0, s, FALSE, 0, 0, 0) : s \in times}
  \cup {ArgRec("gps_dtsv", 0, 0, s, TRUE, EinSample, 0, 0) : s \in times}
  \cup {ArgRec("gps_stateNclock", 0, 0, 0, FALSE, 0, ToeDate.mjd + d, s) :
          d \in days, s \in secs}

AllArgs ==
  ArgsOver(TimeSamples, -MaxDays..MaxDays, {0, ToeDate.sec, SEC_IN_DAY \div 2, SEC_IN_DAY - 1})

\* the call is made within MaxOff seconds of the reference epoch
NearReference(a) ==
  /\ Abs(a.t_sec - a.toe_sec) <= MaxOff
  /\ Abs(a.dt) <= MaxOff
  /\ a.scn = "gps_stateNclock" => a.mjd = ToeDate.mjd /\ a.sec = ToeDate.sec

InitFrames ==
  /\ toc__ = ToeDate
  /\ pc = [p \in ProcSet |-> IF arg[p].scn = "none" THEN "done" ELSE "start"]
  /\ cargs = [p \in ProcSet |-> CallDtsv(0, FALSE, 0, "done")]
  /\ tk = [p \in ProcSet |-> 0]
  /\ dt = [p \in ProcSet |-> 0]
  /\ Mk = [p \in ProcSet |-> 0]
  /\ E = [p \in ProcSet |-> 0]
  /\ Ek = [p \in ProcSet |-> 0]
  /\ i = [p \in ProcSet |-> 0]
  /\ log = [p \in ProcSet |-> <<>>]

\* one caller: every record near the reference epoch, the nominal record at
\* every epoch
Init ==
  /\ DEBUG \in BOOLEAN
  /\ data__ \in Records
  /\ arg \in {[p \in ProcSet |-> IF p = 1 THEN a ELSE NoArg] :
               a \in {x \in AllArgs : data__ = Nominal \/ NearReference(x)}}
  /\ InitFrames

\* two callers on the same record
ConcArgs == ArgsOver(0..MaxOff, {0}, {ToeDate.sec + d : d \in 0..MaxOff})

InitConc ==
  /\ DEBUG \in BOOLEAN
  /\ data__ \in {Nominal, MkData(SCALE \div 2, 2)}
  /\ arg \in [ProcSet -> ConcArgs]
  /\ InitFrames

Next ==
  \E p \in ProcSet :
    \/ StartEcef(p)
    \/ StartDtsv(p)
    \/ StartReuse(p)
    \/ ReuseAfterEcef(p)
    \/ ReuseAfterDtsv(p)
    \/ StateNClockEnter(p)
    \/ StateNClockAfterEcef(p)
    \/ StateNClockAfterDtsv(p)
    \/ EcefEnter(p)
    \/ EcefLoopStep(p)
    \/ EcefExit(p)
    \/ DtsvEnter(p)
    \/ DtsvLoopStep(p)
    \/ DtsvExit(p)

Spec == Init /\ [][Next]_vars

SpecConc == InitConc /\ [][Next]_vars

\* ----------------------------------------- the routines as sequential code
\* the loop of gps_ecef run to its exit: the locals it leaves
RECURSIVE EcefSolve(_, _, _, _)
EcefSolve(e, ek, n, m) ==
  IF EcefGuard(e, ek, n)
  THEN EcefSolve(EcefUpdate(e, m), e, n + 1, m)
  ELSE [E |-> e, Ek |-> ek, i |-> n]

\* the loop of gps_dtsv run to its exit
RECURSIVE DtsvSolve(_, _, _, _)
DtsvSolve(e, ek, n, m) ==
  IF DtsvGuard(e, ek, n)
  THEN DtsvSolve(DtsvUpdate(e, m), e, n + 1, m)
  ELSE [E |-> e, Ek |-> ek, i |-> n]

\* one uninterrupted call of gps_ecef
GpsEcef(toe_sec, t_sec, Ek_ptr) ==
  LET t0 == TkOf(toe_sec, t_sec)
      t  == EcefWrap(t0)
      m  == EcefMeanAnomaly(t)
      s  == EcefSolve(m, 0, 0, m)
      cv == Abs(s.E - s.Ek) <= LIMIT
  IN  IF EcefDebugReject(t0)
      THEN Entry("gps_ecef", -1, t0, t0, FALSE, 0, 0, FALSE, FALSE, 0, <<>>)
      ELSE IF EcefFailed(s.i)
      THEN Entry("gps_ecef", 1, t0, t, TRUE, m, s.i, cv, FALSE, 0, <<>>)
      ELSE Entry("gps_ecef", 0, t0, t, TRUE, m, s.i, cv, Ek_ptr,
                 IF Ek_ptr THEN s.E ELSE 0, EcefState(s.E, t))

\* one uninterrupted call of gps_dtsv
GpsDtsv(d0, hasEin, Ein) ==
  LET d  == DtsvWrap(d0)
      m  == DtsvMeanAnomaly(d)
      s  == DtsvSolve(m, 0, 0, m)
      cv == Abs(s.E - s.Ek) <= LIMIT
  IN  IF hasEin
      THEN Entry("gps_dtsv", 0, d0, d, FALSE, 0, 0, FALSE, TRUE, Ein,
                 <<DtsvValue(d, Ein)>>)
      ELSE IF DtsvFailed(s.i)
      THEN Entry("gps_dtsv", 1, d0, d, TRUE, m, s.i, cv, FALSE, 0, <<>>)
      ELSE Entry("gps_dtsv", 0, d0, d, TRUE, m, s.i, cv, FALSE, s.E,
                 <<DtsvValue(d, s.E)>>)

\* one uninterrupted call of gps_stateNclock: what its callees and it return
GpsStateNClock(mjd, sec) ==
  LET r1 == GpsEcef(ToeDate.sec, AlignToToe(mjd, sec), FALSE)
      r2 == GpsDtsv(DeltaSec(mjd, sec), FALSE, 0)
  IN  IF r1.status # 0
      THEN <<r1, Entry("gps_stateNclock", r1.status, 0, 0, FALSE, 0, 0, FALSE,
                       FALSE, 0, <<>>)>>
      ELSE <<r1, r2, Entry("gps_stateNclock", r2.status, 0, 0, FALSE, 0, 0, FALSE,
                           FALSE, 0, IF r2.status = 0 THEN r1.out \o r2.out ELSE <<>>)>>

\* what a caller run alone on the record ends with
Alone(a) ==
  CASE a.scn = "gps_ecef" -> <<GpsEcef(a.toe_sec, a.t_sec, TRUE)>>
    [] a.scn = "gps_dtsv" -> <<GpsDtsv(a.dt, a.hasEin, a.Ein)>>
    [] a.scn = "gps_stateNclock" -> GpsStateNClock(a.mjd, a.sec)
    [] a.scn = "reuse" ->
         LET r1 == GpsEcef(a.toe_sec, a.t_sec, TRUE)
         IN  IF r1.status # 0 THEN <<r1>>
             ELSE <<r1, GpsDtsv(a.t_sec - a.toe_sec, TRUE, r1.Ek),
                    GpsDtsv(a.t_sec - a.toe_sec, FALSE, 0)>>
    [] OTHER -> <<>>

\* ------------------------------------------------------------------- claims
\* the calls that have returned, of every caller
Returned == UNION {{log[p][k] : k \in 1..Len(log[p])} : p \in ProcSet}

ReturnedOf(fn) == {r \in Returned : r.fn = fn}

\* the calls whose solver loop was reached
Solved == {r \in Returned : r.solved}

\* t lies in (-302400, 302400]
InWindow(t) == -HALF_WEEK < t /\ t <= HALF_WEEK

\* C1: every returned gps_ecef call, in either build, computed with a tk inside
\* (-302400, 302400] and did not return the error -1.
C1_EcefWrapsTk ==
  \A r \in ReturnedOf("gps_ecef") : r.status # -1 /\ InWindow(r.t_used)

\* C2 as stated: the dt gps_dtsv computes with lies in (-302400, 302400] and
\* differs from the dt it was given by a multiple of 604800; a dt given inside
\* the interval is used unchanged.
C2_DtsvWrapOriginal ==
  \A r \in ReturnedOf("gps_dtsv") :
    /\ InWindow(r.t_used)
    /\ (r.t_used - r.t_in) % SEC_IN_WEEK = 0
    /\ InWindow(r.t_in) => r.t_used = r.t_in

\* C2 as amended: the dt gps_dtsv computes with differs from the dt it was
\* given by 0 or by exactly one week; for a dt given in (-907200, 907200] it
\* lies in the closed interval [-302400, 302400]; a dt given in that closed
\* interval (the endpoint -302400 included) is used unchanged.
C2_DtsvWrapAmended ==
  \A r \in ReturnedOf("gps_dtsv") :
    /\ r.t_used - r.t_in \in {0, SEC_IN_WEEK, -SEC_IN_WEEK}
    /\ (-HALF_WEEK - SEC_IN_WEEK < r.t_in /\ r.t_in <= HALF_WEEK + SEC_IN_WEEK)
         => (-HALF_WEEK <= r.t_used /\ r.t_used <= HALF_WEEK)
    /\ (-HALF_WEEK <= r.t_in /\ r.t_in <= HALF_WEEK) => r.t_used = r.t_in

\* a gps_dtsv call given a dt outside the window has returned, having wrapped it
C2_Witness ==
  \E r \in ReturnedOf("gps_dtsv") :
    r.t_in = HALF_WEEK + 1 /\ r.t_used = r.t_in - SEC_IN_WEEK

\* C3: a call that reached its solver loop returns 1 exactly when the tolerance
\* was not reached within 1000 iterations.
C3_NonConvergenceIffCapExceeded ==
  \A r \in Solved : (r.status = 1) <=> ~(r.conv /\ r.iters <= 1000)

\* C4 as stated: with an eccentricity of 1.0 or more every gps_ecef and
\* gps_dtsv call returns a nonzero status.
C4_EccGeOneAlwaysFails ==
  data__[8] >= SCALE =>
    \A r \in ReturnedOf("gps_ecef") \cup ReturnedOf("gps_dtsv") : r.status # 0

\* C4 as amended: with an eccentricity of 1.0 or more, a call that reaches its
\* solver loop returns 1 exactly when the loop counter reached 1000, and 0
\* otherwise; with Mk = 0 the loop is skipped and the call returns 0; gps_dtsv
\* given a non-null Ein runs no loop and returns 0.
C4_EccGeOneAmended ==
  data__[8] >= SCALE =>
    /\ \A r \in Solved :
         /\ r.status \in {0, 1}
         /\ (r.status = 1) <=> (r.iters >= FAIL_AT)
         /\ r.Mk = 0 => (r.iters = 0 /\ r.status = 0)
    /\ \A r \in ReturnedOf("gps_dtsv") :
         r.ptr => (~r.solved /\ r.iters = 0 /\ r.status = 0)

\* with an eccentricity of 1.0 or more a call ran its loop and returned 1
C4_Witness ==
  data__[8] >= SCALE /\ \E r \in Solved : r.status = 1 /\ r.iters >= FAIL_AT

\* C5: once gps_ecef has exported Ek for an elapsed time, gps_dtsv given that
\* Ek and gps_dtsv solving for Ek itself, for the same elapsed time, return the
\* same status and the same clock bias.
C5_ReusedEkSameBias ==
  \A p \in ProcSet :
    (arg[p].scn = "reuse" /\ pc[p] = "done" /\ Len(log[p]) = 3)
      => (log[p][2].status = log[p][3].status /\ log[p][2].out = log[p][3].out)

\* C6: gps_stateNclock calls gps_ecef once; if that returns nonzero it returns
\* that status and gps_dtsv is not called; otherwise it calls gps_dtsv once and
\* returns its status.
C6_StatusPropagates ==
  \A p \in ProcSet :
    arg[p].scn = "gps_stateNclock" =>
      /\ Cardinality({k \in 1..Len(log[p]) : log[p][k].fn = "gps_ecef"}) <= 1
      /\ Cardinality({k \in 1..Len(log[p]) : log[p][k].fn = "gps_dtsv"}) <= 1
      /\ pc[p] = "done" =>
           /\ log[p][1].fn = "gps_ecef"
           /\ IF log[p][1].status # 0
              THEN /\ Len(log[p]) = 2
                   /\ log[p][2].fn = "gps_stateNclock"
                   /\ log[p][2].status = log[p][1].status
              ELSE /\ Len(log[p]) = 3
                   /\ log[p][2].fn = "gps_dtsv"
                   /\ log[p][3].fn = "gps_stateNclock"
                   /\ log[p][3].status = log[p][2].status

\* gps_stateNclock has returned the NonConvergence of gps_ecef
C6_Witness ==
  \E p \in ProcSet :
    /\ arg[p].scn = "gps_stateNclock"
    /\ pc[p] = "done"
    /\ log[p][1].status = 1
    /\ log[p][Len(log[p])].status = 1

\* C7: the loop of a call executes its update step at most 1000 times.
C7_AtMost1000Updates == \A p \in ProcSet : i[p] <= 1000

\* C8: a caller that has finished while another caller ran on the same record
\* holds exactly what it would hold had it run alone, and the record is as it
\* was populated.
C8_ConcurrentSameAsAlone ==
  /\ toc__ = ToeDate
  /\ \A p \in ProcSet : pc[p] = "done" => log[p] = Alone(arg[p])

\* two callers are inside their solver loops on the same record at once
C8_Witness ==
  /\ pc[1] = "ecef_loop" /\ i[1] >= 1
  /\ pc[2] = "dtsv_loop" /\ i[2] >= 1

\* C9: with eccentricity 0, a call that reaches its solver loop returns 0 after
\* at most one update step, and the eccentric anomaly it exports, computes the
\* position from, or uses in the relativistic term equals Mk.
C9_CircularOrbit ==
  data__[8] = 0 =>
    \A r \in Solved :
      /\ r.status = 0
      /\ r.iters <= 1
      /\ r.fn = "gps_ecef" => (r.out[1] = r.Mk /\ (r.ptr => r.Ek = r.Mk))
      /\ r.fn = "gps_dtsv" => r.Ek = r.Mk

\* with eccentricity 0 and Mk # 0 a call has run one update step and returned
C9_Witness ==
  data__[8] = 0 /\ \E r \in Solved : r.Mk # 0 /\ r.iters = 1 /\ r.status = 0

\* the signed seconds from Toe to the epoch t of a gps_stateNclock caller
Elapsed(p) ==
  (arg[p].mjd - ToeDate.mjd) * SEC_IN_DAY + (arg[p].sec - ToeDate.sec)

\* C10: when t and Toe are within half a week of each other, the t_sec and
\* toe_sec gps_stateNclock hands to gps_ecef differ by the elapsed seconds
\* from Toe to t.
C10_TkIsElapsed ==
  \A p \in ProcSet :
    (arg[p].scn = "gps_stateNclock" /\ pc[p] = "ecef_entry"
       /\ Abs(Elapsed(p)) <= HALF_WEEK)
      => cargs[p].t_sec - cargs[p].toe_sec = Elapsed(p)

====
